---- MODULE Spec2Model ----
(***************************************************************************)
(* Grid snapping of aseprite: app::snap_to_grid (src/app/snap_to_grid.cpp) *)
(* for rectangular and isometric grids.  The function is pure; a state of  *)
(* the model is one call: its arguments, the position of the call and the  *)
(* value it returned.                                                      *)
(***************************************************************************)
EXTENDS Integers, FiniteSets, Sequences, TLC

VARIABLES grid, point, prefer, gridType, result, ub, pc

vars == <<grid, point, prefer, gridType, result, ub, pc>>

\* ------------------------------------------------------------------ bounds
\* Cell sizes w, h range over 0..MaxCell (0 is the empty grid).
MaxCell == 4
\* Grid origins x, y range over -MaxOrigin..MaxOrigin.
MaxOrigin == 2
\* Point coordinates range over -MaxCoord..MaxCoord.
MaxCoord == 3
\* Whole-cell shifts k, m of the periodicity claim range over -MaxShift..MaxShift.
MaxShift == 1

\* ------------------------------------------------------------------ types
\* enum class PreferSnapTo
PreferSnapTo == {"ClosestGridVertex", "BoxOrigin", "BoxEnd", "FloorGrid", "CeilGrid"}

\* gen::GridType, the last parameter of snap_to_grid
GridType == {"RECTANGULAR", "ISOMETRIC"}

Pt(px, py) == [x |-> px, y |-> py]

Rect(gx, gy, gw, gh) == [x |-> gx, y |-> gy, w |-> gw, h |-> gh]

\* ------------------------------------------------------------ C++ helpers
Abs(a) == IF a < 0 THEN -a ELSE a

Sign(a) == IF a > 0 THEN 1 ELSE IF a < 0 THEN -1 ELSE 0

\* gfx::Rect::isEmpty(), as used at the two early returns
isEmpty(g) == g.w <= 0 \/ g.h <= 0

\* std::div(a, b): the quotient truncates toward zero and the remainder has
\* the sign of the dividend; a zero divisor is undefined behaviour (ub).
std_div(a, b) ==
  IF b = 0
    THEN [quot |-> 0, rem |-> 0, ub |-> TRUE]
    ELSE LET q == Sign(a) * Sign(b) * (Abs(a) \div Abs(b))
         IN  [quot |-> q, rem |-> a - q * b, ub |-> FALSE]

\* the int division grid.w / 2 of the C++ expression (truncating)
HalfCell(cell) == std_div(cell, 2).quot

\* ------------------------------------------------------- rectangular path
\* newPoint.x = point.x - dx.rem, then the shift of negative coordinates by
\* one cell for every preference but ClosestGridVertex
ShiftNegative(n, cell, pref) ==
  IF pref # "ClosestGridVertex" /\ n < 0 THEN n - cell ELSE n

\* ClosestAxis with >= for >: a tie goes to the higher line
ClosestAxis_TieUp(n, rem, cell) ==
  LET d == std_div(n, cell)
  IN  rem + d.quot * cell + (IF d.rem >= HalfCell(cell) THEN cell ELSE 0)

\* case ClosestGridVertex, one axis
ClosestAxis(n, rem, cell) ==
  LET d == std_div(n, cell)
  IN  rem + d.quot * cell + (IF d.rem > HalfCell(cell) THEN cell ELSE 0)

\* case BoxOrigin / FloorGrid, one axis
FloorAxis(n, rem, cell) ==
  LET d == std_div(n, cell)
  IN  rem + d.quot * cell

\* case CeilGrid, one axis
CeilAxis(n, rem, cell) ==
  LET d == std_div(n, cell)
  IN  IF d.rem # 0 THEN rem + (d.quot + 1) * cell ELSE n

\* BoxEndAxis with the d.rem test of CeilGrid: no step from a grid line
BoxEndAxis_OnLineStays(n, rem, cell) ==
  LET d == std_div(n, cell)
  IN  IF d.rem # 0 THEN rem + (d.quot + 1) * cell ELSE rem + d.quot * cell

\* case BoxEnd, one axis
BoxEndAxis(n, rem, cell) ==
  LET d == std_div(n, cell)
  IN  rem + (d.quot + 1) * cell

\* the switch (prefer) of the rectangular path, one axis
SnapAxis(n, rem, cell, pref) ==
  CASE pref = "ClosestGridVertex"             -> ClosestAxis(n, rem, cell)
    [] pref \in {"BoxOrigin", "FloorGrid"}    -> FloorAxis(n, rem, cell)
    [] pref = "CeilGrid"                      -> CeilAxis(n, rem, cell)
    [] pref = "BoxEnd"                        -> BoxEndAxis(n, rem, cell)

\* the rectangular path after the isEmpty test
snap_to_rectangular_grid(g, p, pref) ==
  LET dx == std_div(g.x, g.w)
      dy == std_div(g.y, g.h)
      nx == ShiftNegative(p.x - dx.rem, g.w, pref)
      ny == ShiftNegative(p.y - dy.rem, g.h, pref)
  IN  [x  |-> SnapAxis(nx, dx.rem, g.w, pref),
       y  |-> SnapAxis(ny, dy.rem, g.h, pref),
       ub |-> dx.ub \/ dy.ub]

\* ---------------------------------------------------------- isometric path
\* The isometric path computes in IEEE-754 binary64.  A double is modelled
\* by the exact rational it approximates, [n, d] for n/d with d > 0, and, where
\* the code rounds it to an integer, by the sign of its rounding error (bias):
\* the error is far smaller than the distance between two distinct values of
\* the model, so it changes a result only where the exact value sits on a
\* rounding boundary.

\* fraction bits of a double (DBL_MANT_DIG - 1)
MantBits == 52

RECURSIVE Pow2(_)
Pow2(k) == IF k <= 0 THEN 1 ELSE 2 * Pow2(k - 1)

RECURSIVE PowMod2(_, _)
\* 2^k mod m
PowMod2(k, m) == IF k <= 0 THEN 1 % m ELSE (2 * PowMod2(k - 1, m)) % m

RECURSIVE GCD(_, _)
GCD(a, b) == IF b = 0 THEN a ELSE GCD(b, a % b)

RECURSIVE OddPart(_)
OddPart(m) == IF m % 2 = 0 THEN OddPart(m \div 2) ELSE m

RECURSIVE TwoAdic(_)
\* the exponent of 2 in m
TwoAdic(m) == IF m % 2 = 0 THEN 1 + TwoAdic(m \div 2) ELSE 0

RECURSIVE ILog2(_, _)
\* floor(log2(n / d)) for n, d > 0: the binary exponent of the double n/d
ILog2(n, d) ==
  IF n >= 2 * d THEN 1 + ILog2(n, 2 * d)
  ELSE IF n < d THEN ILog2(2 * n, d) - 1
  ELSE 0

Min(a, b) == IF a < b THEN a ELSE b

\* the error-free quotient
Exact == [c |-> 0, m |-> 1, e |-> 0]

\* the step from a value with fractional part r / m (m odd) to the nearest
\* integer, in units of 1 / m
ToNearest(r, m) == IF 2 * r < m THEN -r ELSE m - r

\* The double division p / q (round to nearest, ties to even) of two exactly
\* represented operands, for the reduced fraction an / dn = |p / q| of sign s,
\* with m the odd part of dn, j the exponent of 2 in dn and e the binary
\* exponent of the quotient: the error of the double is
\* (c / m) * 2^(e - MantBits); c = 0 when the quotient is representable.
QuotErrAt(s, an, m, j, e) ==
  IF m = 1
    THEN Exact
    ELSE [c |-> s * ToNearest(((an % m) * PowMod2(MantBits - e - j, m)) % m, m),
          m |-> m, e |-> e]

QuotErrReduced(s, an, dn) ==
  QuotErrAt(s, an, OddPart(dn), TwoAdic(dn), ILog2(an, dn))

QuotErr(p, q) ==
  IF p = 0
    THEN Exact
    ELSE QuotErrReduced(Sign(p), Abs(p) \div GCD(Abs(p), q), q \div GCD(Abs(p), q))

\* The double addition of two rounded quotients with errors ea, eb whose exact
\* sum is the integer S # 0 of binary exponent eS: the sign of
\* (computed sum - S), with the errors scaled by 2^(MantBits - E0).  The sum
\* num / den of the two operand errors survives the rounding of the addition
\* only when it exceeds half the spacing of the doubles next to S on its side
\* (on a tie, round-to-even keeps S); below a power of two the spacing halves.
Survives(num, den, S, eS, E0) ==
  IF Sign(num) = Sign(S) \/ Abs(S) # Pow2(eS)
    THEN Abs(num) > Pow2(eS - 1 - E0) * den
    ELSE Abs(num) > Pow2(eS - 2 - E0) * den

SumErrScaled(ea, eb, S, eS, E0) ==
  IF Survives(ea.c * Pow2(ea.e - E0) * eb.m + eb.c * Pow2(eb.e - E0) * ea.m,
              ea.m * eb.m, S, eS, E0)
    THEN Sign(ea.c * Pow2(ea.e - E0) * eb.m + eb.c * Pow2(eb.e - E0) * ea.m)
    ELSE 0

SumErrAt(ea, eb, S, eS) ==
  SumErrScaled(ea, eb, S, eS, Min(Min(ea.e, eb.e), eS - 2))

\* A, B: the exact quotients [n, d] that the two operands approximate
SumErrSign(A, B) ==
  IF A.n * B.d + B.n * A.d = 0
    THEN 0
    ELSE SumErrAt(QuotErr(A.n, A.d), QuotErr(B.n, B.d),
                  (A.n * B.d + B.n * A.d) \div (A.d * B.d),
                  ILog2(Abs((A.n * B.d + B.n * A.d) \div (A.d * B.d)), 1))

\* rel / half with half = cell / 2.0 (exact): the double nearest to 2*rel/cell
DivHalf(rel, cell) == [n |-> 2 * rel, d |-> cell]

Neg(A) == [n |-> -A.n, d |-> A.d]

\* (A + B) / 2.0 for two rounded quotients A, B: tileXf, tileYf
HalfSum(A, B) ==
  LET N == A.n * B.d + B.n * A.d
      D == A.d * B.d
  IN  [n |-> N, d |-> 2 * D,
       bias |-> IF N % D = 0 THEN SumErrSign(A, B) ELSE 0]

\* std::round: to the nearest integer, halfway cases away from zero
std_round(v) ==
  LET a  == Abs(v.n)
      sb == v.bias * Sign(v.n)
      t  == 2 * a + v.d
      q  == IF t % (2 * v.d) = 0 /\ sb < 0 THEN (t \div (2 * v.d)) - 1
                                          ELSE t \div (2 * v.d)
  IN  Sign(v.n) * q

\* std::floor
std_floor(v) ==
  IF v.n % v.d = 0 /\ v.bias < 0 THEN (v.n \div v.d) - 1 ELSE v.n \div v.d

\* std::ceil
std_ceil(v) ==
  IF v.n % v.d = 0 /\ v.bias > 0 THEN (v.n \div v.d) + 1 ELSE -((-v.n) \div v.d)

\* TileIndex with std::floor in place of std::round
TileIndex_FloorForClosest(v, pref) ==
  CASE pref \in {"BoxEnd", "CeilGrid"} -> std_ceil(v)
    [] OTHER                           -> std_floor(v)

\* the switch (prefer) of the isometric path: double tile coordinate -> int
TileIndex(v, pref) ==
  CASE pref \in {"BoxOrigin", "FloorGrid"} -> std_floor(v)
    [] pref \in {"BoxEnd", "CeilGrid"}     -> std_ceil(v)
    [] OTHER                               -> std_round(v)

\* static_cast<int>(std::round(origin + k * half)), half = cell / 2.0: exact
ToScreen(origin, k, cell) ==
  std_round([n |-> 2 * origin + k * cell, d |-> 2, bias |-> 0])

\* constexpr bool kSnapToVerticals
kSnapToVerticals == FALSE

\* the candidate on the nearest vertical grid line (compiled out while
\* kSnapToVerticals is false)
VerticalSnap(g, p) ==
  LET vi == DivHalf(p.x - g.x, g.w)
      si == DivHalf(p.y - g.y, g.h)
      nearestVertIdx == std_round([n |-> vi.n, d |-> vi.d, bias |-> 0])
      nearestSum     == std_round([n |-> si.n, d |-> si.d, bias |-> 0])
  IN  [x |-> ToScreen(g.x, nearestVertIdx, g.w),
       y |-> ToScreen(g.y, nearestSum, g.h)]

\* std::hypot compared through its square (monotone on these integers)
Dist2(a, b) == (a.x - b.x) * (a.x - b.x) + (a.y - b.y) * (a.y - b.y)

snap_to_isometric_grid(g, p, pref) ==
  IF isEmpty(g)
    THEN [x |-> p.x, y |-> p.y, ub |-> FALSE]
    ELSE LET relX   == p.x - g.x
             relY   == p.y - g.y
             tileXf == HalfSum(DivHalf(relX, g.w), DivHalf(relY, g.h))
             tileYf == HalfSum(DivHalf(relY, g.h), Neg(DivHalf(relX, g.w)))
             tileX  == TileIndex(tileXf, pref)
             tileY  == TileIndex(tileYf, pref)
             bestSnap == [x |-> ToScreen(g.x, tileX - tileY, g.w),
                          y |-> ToScreen(g.y, tileX + tileY, g.h)]
             vertSnap == VerticalSnap(g, p)
         IN  IF /\ kSnapToVerticals
                /\ pref = "ClosestGridVertex"
                /\ Dist2(vertSnap, p) < Dist2(bestSnap, p)
               THEN [x |-> vertSnap.x, y |-> vertSnap.y, ub |-> FALSE]
               ELSE [x |-> bestSnap.x, y |-> bestSnap.y, ub |-> FALSE]

\* ------------------------------------------------------------ entry point
\* snap_to_grid without the isEmpty test of the rectangular path
snap_to_grid_NoEmptyTest(g, p, pref, type) ==
  IF type = "ISOMETRIC"
    THEN snap_to_isometric_grid(g, p, pref)
    ELSE snap_to_rectangular_grid(g, p, pref)

snap_to_grid(g, p, pref, type) ==
  IF type = "ISOMETRIC"
    THEN snap_to_isometric_grid(g, p, pref)
    ELSE IF isEmpty(g)
           THEN [x |-> p.x, y |-> p.y, ub |-> FALSE]
           ELSE snap_to_rectangular_grid(g, p, pref)

\* ------------------------------------------------------------ state machine
Cells   == 0..MaxCell
Origins == (-MaxOrigin)..MaxOrigin
Coords  == (-MaxCoord)..MaxCoord

\* the int pairs of the model
Points == {Pt(a, b) : a \in Coords, b \in Coords}

\* the grids of the model: every origin and cell size within the bounds
Grids == {Rect(gx, gy, gw, gh) : gx \in Origins, gy \in Origins, gw \in Cells, gh \in Cells}

\* the grids and points of the worked examples: 10x10 cells at origin 0 and
\* at origin 3, and the 2:1 isometric tile 32x16
ExampleGrids == {Rect(0, 0, 10, 10), Rect(3, 3, 10, 10), Rect(0, 0, 32, 16)}

ExamplePoints ==
  {Pt(4, 4), Pt(5, 5), Pt(6, 6), Pt(17, 23), Pt(10, 10), Pt(11, 9), Pt(3, 3),
   Pt(13, 13), Pt(0, 0), Pt(-3, -3), Pt(-7, -7), Pt(-10, -10), Pt(-3, 8)}

\* the arguments of one call, before it runs
Args(gs, ps, types) ==
  /\ grid \in gs
  /\ point \in ps
  /\ prefer \in PreferSnapTo
  /\ gridType \in types
  /\ result = Pt(0, 0)
  /\ ub = FALSE
  /\ pc = "call"

Inputs(types) ==
  Args(Grids, Points, types) \/ Args(ExampleGrids, ExamplePoints, types)

Init == Inputs(GridType)

\* the calls that leave the grid type at its default, RECTANGULAR
InitRect == Inputs({"RECTANGULAR"})

\* the calls on an isometric grid
InitIso == Inputs({"ISOMETRIC"})

\* one call of snap_to_grid with the arguments of the state; a call that runs
\* into undefined behaviour may return anything
Call ==
  /\ pc = "call"
  /\ LET r == snap_to_grid(grid, point, prefer, gridType)
     IN  /\ ub' = r.ub
         /\ IF r.ub THEN result' \in Points ELSE result' = Pt(r.x, r.y)
  /\ pc' = "done"
  /\ UNCHANGED <<grid, point, prefer, gridType>>

Next == Call

Spec == Init /\ [][Next]_vars

SpecRect == InitRect /\ [][Next]_vars

SpecIso == InitIso /\ [][Next]_vars

\* ------------------------------------------------------- claim vocabulary
Done == pc = "done"

NonEmpty == grid.w > 0 /\ grid.h > 0

RectDone(prefs) ==
  Done /\ gridType = "RECTANGULAR" /\ NonEmpty /\ prefer \in prefs

IsoDone(prefs) ==
  Done /\ gridType = "ISOMETRIC" /\ NonEmpty /\ prefer \in prefs

\* c lies on a grid line of the axis with the given origin and cell size
OnGridLine(c, origin, cell) == (c - origin) % cell = 0

\* the largest grid line <= c and the smallest grid line >= c
FloorLine(c, origin, cell) == origin + ((c - origin) \div cell) * cell

CeilLine(c, origin, cell) == origin - ((origin - c) \div cell) * cell

\* the grid phase: the remainder of origin by cell, with the sign of origin
Phase(origin, cell) ==
  IF origin >= 0 THEN origin % cell ELSE -((-origin) % cell)

\* n / 2 rounded to the nearest integer, halves away from zero
RoundHalf(n) == IF n >= 0 THEN (n + 1) \div 2 ELSE -((1 - n) \div 2)

\* the screen x of the tiles with tx - ty = a and the screen y of the tiles
\* with tx + ty = b, each rounded to the nearest pixel
ScreenX(g, a) == RoundHalf(2 * g.x + a * g.w)

ScreenY(g, b) == RoundHalf(2 * g.y + b * g.h)

\* the screen point of tile (tx, ty), rounded to the nearest pixel
Project(g, tx, ty) == Pt(ScreenX(g, tx - ty), ScreenY(g, tx + ty))

\* the values of tx - ty and of tx + ty whose screen coordinate can fall
\* inside the model's points
Diagonals == (-(2 * (MaxCoord + MaxOrigin) + 1))..(2 * (MaxCoord + MaxOrigin) + 1)

\* p is the rounded screen point of some integer tile (tx, ty): of some
\* a = tx - ty and b = tx + ty, which are any two integers of equal parity
IsTileVertex(g, p) ==
  \E a \in Diagonals :
    /\ ScreenX(g, a) = p.x
    /\ \E b \in Diagonals : ScreenY(g, b) = p.y /\ (a + b) % 2 = 0

\* ------------------------------------------------------------------ claims

\* C1: a call with an empty grid (w = 0 or h = 0) returns the input point
\* unchanged, for every point, preference and grid type, and divides by no
\* zero cell size.
C1_EmptyGridIdentity ==
  (Done /\ (grid.w = 0 \/ grid.h = 0)) => (result = point /\ ~ub)

\* C1 witness: a rectangular call with w = 0 < h at a point off the
\* origin has returned its point.
C1_Witness ==
  /\ Done /\ gridType = "RECTANGULAR" /\ prefer = "BoxEnd"
  /\ grid.w = 0 /\ grid.h > 0 /\ point.x < 0 /\ point.y > 0
  /\ result = point

\* C2 (as claimed): rectangular ClosestGridVertex returns on each axis a grid
\* line nearest to the point: a grid line at distance <= half a cell, also for
\* points below the grid phase.
C2_ClosestIsNearest ==
  RectDone({"ClosestGridVertex"}) =>
    /\ OnGridLine(result.x, grid.x, grid.w)
    /\ OnGridLine(result.y, grid.y, grid.h)
    /\ 2 * Abs(result.x - point.x) <= grid.w
    /\ 2 * Abs(result.y - point.y) <= grid.h

\* a coordinate c halfway between two grid lines of an axis with an even cell
HalfwayAt(c, origin, cell) ==
  cell % 2 = 0 /\ (c - origin) % cell = cell \div 2

\* C3 (as claimed): rectangular ClosestGridVertex moves a coordinate exactly
\* halfway between two grid lines to the higher one, so (5,5) on the grid
\* {0,0,10,10} goes to (10,10).
C3_TiesRoundUp ==
  RectDone({"ClosestGridVertex"}) =>
    /\ HalfwayAt(point.x, grid.x, grid.w) => result.x = point.x + grid.w \div 2
    /\ HalfwayAt(point.y, grid.y, grid.h) => result.y = point.y + grid.h \div 2

\* the tie rule of one axis: the lower grid line for a coordinate at or above
\* the grid phase, the higher one for a coordinate below it
TieTowardPhase(c, r, origin, cell) ==
  HalfwayAt(c, origin, cell) =>
    IF c >= Phase(origin, cell) THEN r = c - cell \div 2
                                ELSE r = c + cell \div 2

\* C3 (amended): rectangular ClosestGridVertex moves a coordinate exactly
\* halfway between two grid lines to the lower line when the coordinate is at
\* or above the grid phase (remainder = w/2) and to the higher line when it is
\* below the phase; on the grid {0,0,10,10}, (5,5) goes to (0,0), (4,4) to
\* (0,0) and (6,6) to (10,10).
C3_TiesTowardPhase ==
  RectDone({"ClosestGridVertex"}) =>
    /\ TieTowardPhase(point.x, result.x, grid.x, grid.w)
    /\ TieTowardPhase(point.y, result.y, grid.y, grid.h)
    /\ grid = Rect(0, 0, 10, 10) =>
         /\ point = Pt(5, 5) => result = Pt(0, 0)
         /\ point = Pt(4, 4) => result = Pt(0, 0)
         /\ point = Pt(6, 6) => result = Pt(10, 10)

\* C3 witness: the tie (5,5) on the grid {0,0,10,10} has gone to (0,0).
C3_Witness ==
  /\ RectDone({"ClosestGridVertex"})
  /\ grid = Rect(0, 0, 10, 10) /\ point = Pt(5, 5) /\ result = Pt(0, 0)

\* C4 (as claimed): rectangular FloorGrid and BoxOrigin return on each axis
\* the largest grid line <= the coordinate (floor toward negative infinity);
\* a coordinate on a negative grid line stays on it.
C4_FloorIsFloor ==
  RectDone({"FloorGrid", "BoxOrigin"}) =>
    /\ result.x = FloorLine(point.x, grid.x, grid.w)
    /\ result.y = FloorLine(point.y, grid.y, grid.h)

\* C5 (as claimed): rectangular CeilGrid returns on each axis the smallest
\* grid line >= the coordinate; a coordinate on a grid line is returned
\* unchanged, whatever the grid origin.
C5_CeilIsCeil ==
  RectDone({"CeilGrid"}) =>
    /\ result.x = CeilLine(point.x, grid.x, grid.w)
    /\ result.y = CeilLine(point.y, grid.y, grid.h)

\* C6 (as claimed): every vertex of a rectangular grid maps to itself under
\* ClosestGridVertex, BoxOrigin, FloorGrid and CeilGrid, whatever the origin.
C6_VertexIsFixed ==
  ( /\ RectDone({"ClosestGridVertex", "BoxOrigin", "FloorGrid", "CeilGrid"})
    /\ OnGridLine(point.x, grid.x, grid.w)
    /\ OnGridLine(point.y, grid.y, grid.h) ) => result = point

\* C7 (as claimed): for every non-empty isometric grid and all tile
\* coordinates, the screen point of the tile, rounded to the nearest pixel,
\* is returned unchanged by ClosestGridVertex.
C7_IsoRoundTrip ==
  (IsoDone({"ClosestGridVertex"}) /\ IsTileVertex(grid, point)) => result = point

\* C7 (amended): the same round trip for every isometric grid except those
\* with exactly one of w, h equal to 1 (w >= 2 and h >= 2, even or odd, or
\* w = h = 1).
C7_IsoRoundTripNoUnitSide ==
  ( /\ IsoDone({"ClosestGridVertex"})
    /\ (grid.w = 1) <=> (grid.h = 1)
    /\ IsTileVertex(grid, point) ) => result = point

\* C7 witness: on a 3x3 isometric grid the half-pixel vertex of tile (-1, 0),
\* rounded to a pixel, has been returned unchanged.
C7_Witness ==
  /\ IsoDone({"ClosestGridVertex"})
  /\ grid.w = 3 /\ grid.h = 3
  /\ point = Project(grid, -1, 0)
  /\ result = point

\* the exact tile coordinates of the point are nX / (w*h) and nY / (w*h)
TileNumX == (point.x - grid.x) * grid.h + (point.y - grid.y) * grid.w

TileNumY == (point.y - grid.y) * grid.w - (point.x - grid.x) * grid.h

\* floor and ceil of n / (w*h)
FloorCeil(n) == {n \div (grid.w * grid.h), -((-n) \div (grid.w * grid.h))}

\* C8 (as claimed): with even w and h, isometric ClosestGridVertex returns a
\* point at least as near to the input (Euclidean distance on the screen) as
\* each of the 4 vertices of the diamond cell around the input: the tiles
\* (floor or ceil of tileX, floor or ceil of tileY).
C8_IsoClosestIsNearest ==
  ( /\ IsoDone({"ClosestGridVertex"})
    /\ grid.w % 2 = 0 /\ grid.h % 2 = 0 ) =>
    \A cx \in FloorCeil(TileNumX), cy \in FloorCeil(TileNumY) :
      Dist2(result, point) <= Dist2(Project(grid, cx, cy), point)

\* C9: rectangular BoxEnd returns the BoxOrigin result of the same grid and
\* point plus exactly one cell (w, h), for points on and off the grid lines,
\* positive and negative.
C9_BoxEndIsBoxOriginPlusCell ==
  RectDone({"BoxEnd"}) =>
    LET o == snap_to_grid(grid, point, "BoxOrigin", "RECTANGULAR")
    IN  result = Pt(o.x + grid.w, o.y + grid.h)

\* C9 witness: a BoxEnd call at a point below the origin whose x lies on a
\* grid line and whose y does not has returned the BoxOrigin corner plus one
\* cell.
C9_Witness ==
  /\ RectDone({"BoxEnd"})
  /\ grid.w > 1 /\ grid.h > 1
  /\ point.x < grid.x /\ point.y < grid.y
  /\ OnGridLine(point.x, grid.x, grid.w)
  /\ ~OnGridLine(point.y, grid.y, grid.h)
  /\ LET o == snap_to_grid(grid, point, "BoxOrigin", "RECTANGULAR")
     IN  result = Pt(o.x + grid.w, o.y + grid.h)

\* C10 (as claimed): rectangular snapping is periodic with the grid: moving
\* the point by whole cells (k*w, m*h) moves the result by the same amount,
\* for every preference.
C10_Periodic ==
  RectDone(PreferSnapTo) =>
    \A k \in (-MaxShift)..MaxShift, m \in (-MaxShift)..MaxShift :
      LET s == snap_to_grid(grid, Pt(point.x + k * grid.w, point.y + m * grid.h),
                            prefer, "RECTANGULAR")
      IN  Pt(s.x, s.y) = Pt(result.x + k * grid.w, result.y + m * grid.h)

====
